---- MODULE Spec2Model ----
(***************************************************************************)
(* A model of regex-rs (src/src/nfa.rs): re2post (infix pattern to         *)
(* postfix), NFAGraph::compile (Thompson construction over a fragment      *)
(* stack) and NFAGraph::is_match (epsilon-closure simulation).             *)
(*                                                                         *)
(* Characters are one-character strings.  "a" is a one-byte alphanumeric,  *)
(* "U" stands for an alphanumeric whose UTF-8 encoding has two bytes (such *)
(* as e-acute), "#" stands for any character that no match arm names.      *)
(*                                                                         *)
(* re2post and compile read their input left to right, one character at a  *)
(* time and without lookahead, so the unread rest of the input is chosen   *)
(* as it is read: `re` (and `post` when compile is called directly) is the *)
(* input consumed so far, and the end of the input is a choice as well.    *)
(***************************************************************************)
EXTENDS Naturals, Integers, Sequences, FiniteSets, TLC

\* Longest pattern handed to NFAGraph::new.
MaxReLen == 4
\* Longest postfix string handed directly to NFAGraph::compile.
MaxPostLen == 3
\* Longest input (in characters) handed to is_match.
MaxInput == 2

VARIABLES
    mode,         \* "new": NFAGraph::new(pattern); "compile": NFAGraph::compile(post)
    pc,           \* "re2post" | "compile" | "call" | "closure" | "loop" | "done"
    \* ---- re2post
    re,           \* the pattern characters read so far
    postfix,      \* let mut postfix: String
    paren,        \* let mut paren: Vec<Paren>
    natom,        \* let mut natom
    nalt,         \* let mut nalt
    parse,        \* re2post's outcome: "running" | "Some" | "None" | "panic" | "skipped"
    \* ---- compile
    post,         \* compile's argument (in mode "compile": the part read so far)
    cpos,         \* number of tokens of post fully processed
    stack,        \* let mut stack: Vec<Frag>
    states,       \* graph.states : StateId -> outs (destination StateId -> Transition)
    last_id,      \* graph.last_id
    start,        \* graph.start
    ends,         \* graph.ends
    built,        \* compile's outcome: "idle" | "running" | "finished" | "early" | "panic"
    \* ---- is_match / check_match / closure
    s,            \* the input string, as a sequence of characters
    i,            \* the enumerate() index of the loop in check_match
    next_set,     \* let mut next_set
    closure_set,  \* closure's closure_set
    queue,        \* closure's work queue
    in_loop,      \* FALSE while the closure before the loop runs
    outcome,      \* is_match's outcome: "idle" | "running" | "returned" | "panic"
    result        \* is_match's return value, once outcome = "returned"

vars == <<mode, pc, re, postfix, paren, natom, nalt, parse, post, cpos, stack,
          states, last_id, start, ends, built, s, i, next_set, closure_set,
          queue, in_loop, outcome, result>>

re2postVars == <<re, postfix, paren, natom, nalt, parse>>
compileVars == <<post, cpos, stack, states, last_id, start, ends, built>>
matchVars   == <<s, i, next_set, closure_set, queue, in_loop, outcome, result>>

----------------------------------------------------------------------------
\* Characters

Literals == {"a", "U"}
Repeats  == {"*", "+", "?"}
\* What a pattern may hold: the grammar's characters and one illegal character.
ReChars   == Literals \cup Repeats \cup {"(", ")", "|", "#"}
\* What a postfix string may hold: compile's arms and one character of its `_` arm.
PostChars == Literals \cup Repeats \cup {".", "|", "#"}

\* char::is_alphanumeric
is_alphanumeric(c) == c \in Literals

\* The number of bytes of a character's UTF-8 encoding (char::len_utf8).
len_utf8(c) == IF c = "U" THEN 2 ELSE 1

\* str::len: the length of a string in BYTES.
RECURSIVE str_len(_)
str_len(str) == IF str = <<>> THEN 0 ELSE len_utf8(Head(str)) + str_len(Tail(str))

Range(seq) == {seq[k] : k \in 1..Len(seq)}

\* n copies of character c (a `while n > 0 { n -= 1; postfix.push(c) }` loop).
RECURSIVE Repeat(_, _)
Repeat(c, n) == IF n = 0 THEN <<>> ELSE <<c>> \o Repeat(c, n - 1)

\* `while natom > 1 { natom -= 1; postfix.push('.') }`: the dots it pushes.
FlushConcat(n) == IF n > 1 THEN Repeat(".", n - 1) ELSE <<>>

----------------------------------------------------------------------------
\* re2post (src/src/nfa.rs 252-336), one action per match arm.

Reading == pc = "re2post" /\ parse = "running" /\ Len(re) < MaxReLen

\* re2post returns None; NFAGraph::new then panics with "illegal pattern".
ReturnNone ==
    /\ parse' = "None"
    /\ pc' = "done"
    /\ UNCHANGED <<postfix, paren, natom, nalt>>

\* '(' arm
Re2postLParen ==
    /\ Reading
    /\ re' = Append(re, "(")
    /\ postfix' = IF natom > 1 THEN Append(postfix, ".") ELSE postfix
    /\ paren' = Append(paren, [natom |-> IF natom > 1 THEN natom - 1 ELSE natom,
                               nalt |-> nalt])
    /\ natom' = 0
    /\ nalt' = 0
    /\ UNCHANGED <<parse, pc>>
    /\ UNCHANGED <<mode, compileVars, matchVars>>

\* '|' arm
Re2postAlt ==
    /\ Reading
    /\ re' = Append(re, "|")
    /\ IF natom = 0
       THEN ReturnNone
       ELSE /\ nalt' = nalt + 1
            /\ postfix' = postfix \o FlushConcat(natom)
            /\ natom' = 0
            /\ UNCHANGED <<paren, parse, pc>>
    /\ UNCHANGED <<mode, compileVars, matchVars>>

\* ')' arm
Re2postRParen ==
    /\ Reading
    /\ re' = Append(re, ")")
    /\ IF paren = <<>> \/ natom = 0
       THEN ReturnNone
       ELSE LET p == paren[Len(paren)] IN
            /\ postfix' = postfix \o FlushConcat(natom) \o Repeat("|", nalt)
            /\ paren' = SubSeq(paren, 1, Len(paren) - 1)
            /\ natom' = p.natom + 1
            /\ nalt' = p.nalt
            /\ UNCHANGED <<parse, pc>>
    /\ UNCHANGED <<mode, compileVars, matchVars>>

\* '*' | '+' | '?' arm
Re2postRepeat ==
    /\ Reading
    /\ \E c \in Repeats :
        /\ re' = Append(re, c)
        /\ IF natom = 0
           THEN ReturnNone
           ELSE /\ postfix' = Append(postfix, c)
                /\ UNCHANGED <<paren, natom, nalt, parse, pc>>
    /\ UNCHANGED <<mode, compileVars, matchVars>>

\* c if c.is_alphanumeric() arm
Re2postLiteral ==
    /\ Reading
    /\ \E c \in ReChars :
        /\ is_alphanumeric(c)
        /\ re' = Append(re, c)
        /\ postfix' = IF natom > 1 THEN postfix \o <<".", c>> ELSE Append(postfix, c)
        /\ natom' = IF natom > 1 THEN natom ELSE natom + 1
    /\ UNCHANGED <<paren, nalt, parse, pc>>
    /\ UNCHANGED <<mode, compileVars, matchVars>>

\* _ arm: panic!("illegal character")
Re2postIllegal ==
    /\ Reading
    /\ \E c \in ReChars :
        /\ ~ is_alphanumeric(c) /\ c \notin Repeats \cup {"(", ")", "|"}
        /\ re' = Append(re, c)
    /\ parse' = "panic"
    /\ pc' = "done"
    /\ UNCHANGED <<postfix, paren, natom, nalt>>
    /\ UNCHANGED <<mode, compileVars, matchVars>>

\* What follows the loop: the unbalanced-parenthesis check and the two flushes.
\* On Some(post), NFAGraph::new calls compile(&post).
Re2postEnd ==
    /\ pc = "re2post" /\ parse = "running"
    /\ IF paren # <<>>
       THEN /\ ReturnNone
            /\ UNCHANGED <<post, built>>
       ELSE /\ postfix' = postfix \o FlushConcat(natom) \o Repeat("|", nalt)
            /\ natom' = IF natom > 1 THEN 1 ELSE natom
            /\ nalt' = 0
            /\ parse' = "Some"
            /\ post' = postfix'
            /\ built' = "running"
            /\ pc' = "compile"
            /\ UNCHANGED paren
    /\ UNCHANGED <<mode, re, cpos, stack, states, last_id, start, ends, matchVars>>

----------------------------------------------------------------------------
\* Transition, State.outs (a HashMap keyed by the destination), Frag

Epsilon == [kind |-> "Epsilon", chars |-> <<>>]
Char(cs) == [kind |-> "Char", chars |-> cs]

\* HashMap::new()
NoOuts == <<>>

\* HashMap::insert: the entry for key k is replaced when there is one.
Insert(m, k, v) == (k :> v) @@ m

\* `for e in dests { outs.insert(e, tr) }`
InsertAll(outs, dests, tr) ==
    [d \in DOMAIN outs \cup Range(dests) |-> IF d \in Range(dests) THEN tr ELSE outs[d]]

\* WireEnds without its loop: the ends of a fragment are left unwired.
WireEndsUnwired(st, froms, to) == st

\* `for next in froms { graph.states.get_mut(next).unwrap().outs.insert(to, Epsilon) }`
WireEnds(st, froms, to) ==
    [id \in DOMAIN st |-> IF id \in Range(froms) THEN Insert(st[id], to, Epsilon) ELSE st[id]]

\* AddStates without the second insert: the end state is never stored.
AddStatesStartOnly(st, id, start_outs) == (id :> start_outs) @@ st

\* graph.states.insert(start.id, start.clone()); graph.states.insert(end.id, end.clone())
\* for the two states allocated at last_id and last_id + 1; the end has no outs.
AddStates(st, id, start_outs) == (id :> start_outs) @@ ((id + 1) :> NoOuts) @@ st

Frag(st, en) == [start |-> st, end |-> en]

----------------------------------------------------------------------------
\* NFAGraph::compile (src/src/nfa.rs 51-182), one action per match arm.

Compiling == pc = "compile" /\ built = "running"

\* The characters the loop `for post_char in post.chars()` may see next.
NextTokens ==
    IF mode = "compile"
    THEN IF Len(post) < MaxPostLen THEN PostChars ELSE {}
    ELSE IF cpos < Len(post) THEN {post[cpos + 1]} ELSE {}

Take(t) == post' = IF mode = "compile" THEN Append(post, t) ELSE post

Top(n) == stack[Len(stack) - n]
Pop(n) == SubSeq(stack, 1, Len(stack) - n)

\* `return graph;` on a stack too short for the operator: the graph as built so
\* far, with the start and ends it was created with.
EarlyReturn ==
    /\ built' = "early"
    /\ pc' = "call"
    /\ UNCHANGED <<cpos, stack, states, last_id, start, ends>>

\* '.' arm
CompileConcat ==
    /\ Compiling
    /\ "." \in NextTokens
    /\ Take(".")
    /\ IF Len(stack) < 2
       THEN EarlyReturn
       ELSE LET frag2 == Top(0)
                frag1 == Top(1)
            IN  /\ states' = WireEnds(states, frag1.end, frag2.start)
                /\ stack' = Append(Pop(2), Frag(frag1.start, frag2.end))
                /\ cpos' = cpos + 1
                /\ UNCHANGED <<last_id, start, ends, built, pc>>
    /\ UNCHANGED <<mode, re2postVars, matchVars>>

\* '|' arm
CompileAlt ==
    /\ Compiling
    /\ "|" \in NextTokens
    /\ Take("|")
    /\ IF Len(stack) < 2
       THEN EarlyReturn
       ELSE LET frag2 == Top(0)
                frag1 == Top(1)
                end_id == last_id + 1
                start_outs == Insert(Insert(NoOuts, frag1.start, Epsilon),
                                     frag2.start, Epsilon)
                wired == WireEnds(WireEnds(states, frag1.end, end_id), frag2.end, end_id)
            IN  /\ states' = AddStates(wired, last_id, start_outs)
                /\ last_id' = last_id + 2
                /\ stack' = Append(Pop(2), Frag(last_id, <<end_id>>))
                /\ cpos' = cpos + 1
                /\ UNCHANGED <<start, ends, built, pc>>
    /\ UNCHANGED <<mode, re2postVars, matchVars>>

\* '?' arm
CompileQuest ==
    /\ Compiling
    /\ "?" \in NextTokens
    /\ Take("?")
    /\ IF stack = <<>>
       THEN EarlyReturn
       ELSE LET frag == Top(0) IN
            /\ states' = [states EXCEPT ![frag.start] = InsertAll(@, frag.end, Epsilon)]
            /\ stack' = Append(Pop(1), frag)
            /\ cpos' = cpos + 1
            /\ UNCHANGED <<last_id, start, ends, built, pc>>
    /\ UNCHANGED <<mode, re2postVars, matchVars>>

\* '*' arm
CompileStar ==
    /\ Compiling
    /\ "*" \in NextTokens
    /\ Take("*")
    /\ IF stack = <<>>
       THEN EarlyReturn
       ELSE LET frag == Top(0)
                end_id == last_id + 1
                start_outs == Insert(NoOuts, frag.start, Epsilon)
                bypass == [states EXCEPT ![frag.start] = InsertAll(@, frag.end, Epsilon)]
                wired == WireEnds(WireEnds(bypass, frag.end, end_id), frag.end, frag.start)
            IN  /\ states' = AddStates(wired, last_id, start_outs)
                /\ last_id' = last_id + 2
                /\ stack' = Append(Pop(1), Frag(last_id, <<end_id>>))
                /\ cpos' = cpos + 1
                /\ UNCHANGED <<start, ends, built, pc>>
    /\ UNCHANGED <<mode, re2postVars, matchVars>>

\* '+' arm
CompilePlus ==
    /\ Compiling
    /\ "+" \in NextTokens
    /\ Take("+")
    /\ IF stack = <<>>
       THEN EarlyReturn
       ELSE LET frag == Top(0)
                end_id == last_id + 1
                start_outs == Insert(NoOuts, frag.start, Epsilon)
                wired == WireEnds(WireEnds(states, frag.end, end_id), frag.end, frag.start)
            IN  /\ states' = AddStates(wired, last_id, start_outs)
                /\ last_id' = last_id + 2
                /\ stack' = Append(Pop(1), Frag(last_id, <<end_id>>))
                /\ cpos' = cpos + 1
                /\ UNCHANGED <<start, ends, built, pc>>
    /\ UNCHANGED <<mode, re2postVars, matchVars>>

\* c if c.is_alphanumeric() arm
CompileLiteral ==
    /\ Compiling
    /\ \E c \in NextTokens :
        /\ is_alphanumeric(c)
        /\ Take(c)
        /\ states' = AddStates(states, last_id,
                               Insert(NoOuts, last_id + 1, Char(<<c>>)))
    /\ last_id' = last_id + 2
    /\ stack' = Append(stack, Frag(last_id, <<last_id + 1>>))
    /\ cpos' = cpos + 1
    /\ UNCHANGED <<start, ends, built, pc>>
    /\ UNCHANGED <<mode, re2postVars, matchVars>>

\* _ arm: panic!("illegal character")
CompileIllegal ==
    /\ Compiling
    /\ \E c \in NextTokens :
        /\ ~ is_alphanumeric(c) /\ c \notin Repeats \cup {".", "|"}
        /\ Take(c)
    /\ built' = "panic"
    /\ pc' = "done"
    /\ UNCHANGED <<cpos, stack, states, last_id, start, ends>>
    /\ UNCHANGED <<mode, re2postVars, matchVars>>

\* After the loop: the start and ends of the fragment on top of the stack.
CompileEnd ==
    /\ Compiling
    /\ cpos = Len(post)
    /\ IF stack # <<>>
       THEN /\ start' = Top(0).start
            /\ ends' = Top(0).end
            /\ stack' = Pop(1)
       ELSE UNCHANGED <<start, ends, stack>>
    /\ built' = "finished"
    /\ pc' = "call"
    /\ UNCHANGED <<post, cpos, states, last_id>>
    /\ UNCHANGED <<mode, re2postVars, matchVars>>

----------------------------------------------------------------------------
\* NFAGraph::is_match, check_match, closure, move2 (src/src/nfa.rs 184-243)

\* Every string of at most n literals.
RECURSIVE Strings(_)
Strings(n) ==
    IF n = 0 THEN {<<>>}
    ELSE LET shorter == Strings(n - 1)
         IN  shorter \cup {Append(w, c) : w \in {x \in shorter : Len(x) = n - 1},
                                          c \in Literals}

Inputs == Strings(MaxInput)

\* The orders in which a HashMap may yield the keys in set S.
RECURSIVE Orderings(_)
Orderings(S) ==
    IF S = {} THEN {<<>>}
    ELSE UNION {{<<x>> \o rest : rest \in Orderings(S \ {x})} : x \in S}

\* NewEpsilon without the `!closure_set.contains(out.0)` test.
NewEpsilonUnchecked(id, seen) ==
    {d \in DOMAIN states[id] : states[id][d].kind = "Epsilon"}

\* The destinations closure pushes while it visits state id: those of the
\* Epsilon outs that closure_set does not contain yet.
NewEpsilon(id, seen) ==
    {d \in DOMAIN states[id] : states[id][d].kind = "Epsilon" /\ d \notin Range(seen)}

\* The destinations move2 pushes for state id: those of its Char outs that
\* contain c.
CharDests(c, id) ==
    {d \in DOMAIN states[id] :
        states[id][d].kind = "Char" /\ c \in Range(states[id][d].chars)}

\* move2: the vectors it may return (the order of a HashMap's entries is not
\* specified).
RECURSIVE move2(_, _)
move2(c, current_set) ==
    IF current_set = <<>> THEN {<<>>}
    ELSE {h \o t : h \in Orderings(CharDests(c, Head(current_set))),
                   t \in move2(c, Tail(current_set))}

\* ExhaustedResult with the final `false` of check_match turned into `true`.
ExhaustedResultTrue == TRUE

\* What the loop of check_match is left with when the input is exhausted.
ExhaustedResult == FALSE

\* `state.outs.is_empty() && i == s.len() - 1` for some state of next_set
\* (s.len() counts bytes, i counts characters).
Accepts(set, idx, str) ==
    \E id \in Range(set) : DOMAIN states[id] = {} /\ idx = str_len(str) - 1

Return(b) ==
    /\ outcome' = "returned"
    /\ result' = b
    /\ pc' = "done"

\* a call of closure(current_set): closure_set and the queue start as current_set
StartClosure(current_set) ==
    /\ closure_set' = current_set
    /\ queue' = current_set

\* is_match(s): check_match up to the first call of closure
IsMatch ==
    /\ pc = "call"
    /\ \E w \in Inputs : s' = w
    /\ StartClosure(<<start>>)
    /\ i' = 0
    /\ in_loop' = FALSE
    /\ outcome' = "running"
    /\ pc' = "closure"
    /\ UNCHANGED <<next_set, result>>
    /\ UNCHANGED <<mode, re2postVars, compileVars>>

\* one iteration of `while !queue.is_empty()`; states.get(..).unwrap() panics
\* on a StateId that is no key of graph.states
ClosureStep ==
    /\ pc = "closure"
    /\ queue # <<>>
    /\ LET state_id == Head(queue) IN
       IF state_id \notin DOMAIN states
       THEN /\ outcome' = "panic"
            /\ pc' = "done"
            /\ UNCHANGED <<closure_set, queue>>
       ELSE /\ \E order \in Orderings(NewEpsilon(state_id, closure_set)) :
                 /\ closure_set' = closure_set \o order
                 /\ queue' = Tail(queue) \o order
            /\ UNCHANGED <<outcome, pc>>
    /\ UNCHANGED <<s, i, next_set, in_loop, result>>
    /\ UNCHANGED <<mode, re2postVars, compileVars>>

\* closure returns; inside the loop, the rest of the loop body
ClosureReturn ==
    /\ pc = "closure"
    /\ queue = <<>>
    /\ next_set' = closure_set
    /\ IF ~ in_loop
       THEN /\ pc' = "loop"
            /\ UNCHANGED <<i, outcome, result>>
       ELSE IF closure_set = <<>>
            THEN Return(FALSE) /\ UNCHANGED i
            ELSE IF Accepts(closure_set, i, s)
                 THEN Return(TRUE) /\ UNCHANGED i
                 ELSE /\ i' = i + 1
                      /\ pc' = "loop"
                      /\ UNCHANGED <<outcome, result>>
    /\ UNCHANGED <<s, closure_set, queue, in_loop>>
    /\ UNCHANGED <<mode, re2postVars, compileVars>>

\* `for (i, c) in s.chars().enumerate()`: the next character, or the end
LoopHead ==
    /\ pc = "loop"
    /\ IF i < Len(s)
       THEN /\ \E current_set \in move2(s[i + 1], next_set) : StartClosure(current_set)
            /\ in_loop' = TRUE
            /\ pc' = "closure"
            /\ UNCHANGED <<outcome, result>>
       ELSE /\ Return(ExhaustedResult)
            /\ UNCHANGED <<closure_set, queue, in_loop>>
    /\ UNCHANGED <<s, i, next_set>>
    /\ UNCHANGED <<mode, re2postVars, compileVars>>

----------------------------------------------------------------------------
\* The program: NFAGraph::new(pattern) or NFAGraph::compile(post), then is_match.

Init ==
    /\ mode \in {"new", "compile"}
    /\ pc = IF mode = "new" THEN "re2post" ELSE "compile"
    /\ re = <<>>
    /\ postfix = <<>>
    /\ paren = <<>>
    /\ natom = 0
    /\ nalt = 0
    /\ parse = IF mode = "new" THEN "running" ELSE "skipped"
    /\ post = <<>>
    /\ cpos = 0
    /\ stack = <<>>
    /\ states = <<>>
    /\ last_id = 0
    /\ start = 0
    /\ ends = <<0>>
    /\ built = IF mode = "new" THEN "idle" ELSE "running"
    /\ s = <<>>
    /\ i = 0
    /\ next_set = <<>>
    /\ closure_set = <<>>
    /\ queue = <<>>
    /\ in_loop = FALSE
    /\ outcome = "idle"
    /\ result = FALSE

Next ==
    \/ Re2postLParen
    \/ Re2postAlt
    \/ Re2postRParen
    \/ Re2postRepeat
    \/ Re2postLiteral
    \/ Re2postIllegal
    \/ Re2postEnd
    \/ CompileConcat
    \/ CompileAlt
    \/ CompileQuest
    \/ CompileStar
    \/ CompilePlus
    \/ CompileLiteral
    \/ CompileIllegal
    \/ CompileEnd
    \/ IsMatch
    \/ ClosureStep
    \/ ClosureReturn
    \/ LoopHead

Spec == Init /\ [][Next]_vars

\* NFAGraph::compile called on a postfix string of the caller's, then is_match.
InitCompile == Init /\ mode = "compile"

NextCompile ==
    \/ CompileConcat
    \/ CompileAlt
    \/ CompileQuest
    \/ CompileStar
    \/ CompilePlus
    \/ CompileLiteral
    \/ CompileIllegal
    \/ CompileEnd
    \/ IsMatch
    \/ ClosureStep
    \/ ClosureReturn
    \/ LoopHead

\* The program is sequential and nothing preempts it: a step that can be
\* taken is taken.
FairCompileSpec == InitCompile /\ [][NextCompile]_vars /\ WF_vars(NextCompile)

----------------------------------------------------------------------------
\* The regular language a pattern denotes, cut to the words of is_match's
\* inputs.  Patterns are generated by the grammar
\*     alt ::= cat | alt "|" cat        cat ::= rep | cat rep
\*     rep ::= atom | rep ("*" | "+" | "?")     atom ::= literal | "(" alt ")"
\* each together with its language.

Words == Inputs

ConcatLang(L1, L2) == {w \in {u \o v : u \in L1, v \in L2} : w \in Words}

RECURSIVE StarUpTo(_, _)
StarUpTo(L, n) ==
    IF n = 0 THEN {<<>>} ELSE {<<>>} \cup ConcatLang(L, StarUpTo(L, n - 1))

RepeatLang(op, L) ==
    CASE op = "*" -> StarUpTo(L, MaxInput)
      [] op = "+" -> ConcatLang(L, StarUpTo(L, MaxInput))
      [] op = "?" -> L \cup {<<>>}

Denotes(p, L) == [pat |-> p, lang |-> L]

\* The patterns of exactly n characters, by nonterminal; tab[m] holds those of
\* m < n characters.
GrammarLevel(n, tab) ==
    LET atom == (IF n = 1 THEN {Denotes(<<c>>, {<<c>>} \cap Words) : c \in Literals} ELSE {})
                \cup (IF n >= 3
                      THEN {Denotes(<<"(">> \o g.pat \o <<")">>, g.lang) : g \in tab[n - 2].alt}
                      ELSE {})
        rep  == atom \cup
                (IF n >= 2
                 THEN {Denotes(Append(g.pat, op), RepeatLang(op, g.lang)) :
                           g \in tab[n - 1].rep, op \in Repeats}
                 ELSE {})
        cat  == rep \cup
                UNION {{Denotes(x.pat \o y.pat, ConcatLang(x.lang, y.lang)) :
                            x \in tab[k].cat, y \in tab[n - k].rep} : k \in 1..(n - 1)}
        alt  == cat \cup
                UNION {{Denotes(x.pat \o <<"|">> \o y.pat, x.lang \cup y.lang) :
                            x \in tab[k].alt, y \in tab[n - k - 1].cat} : k \in 1..(n - 2)}
    IN  [atom |-> atom, rep |-> rep, cat |-> cat, alt |-> alt]

RECURSIVE GrammarTable(_, _)
GrammarTable(n, tab) ==
    IF n > MaxReLen THEN tab ELSE GrammarTable(n + 1, Append(tab, GrammarLevel(n, tab)))

\* Every pattern of the grammar of at most MaxReLen characters, with its language.
Grammar == LET tab == GrammarTable(1, <<>>) IN UNION {tab[n].alt : n \in 1..MaxReLen}

InGrammar(p) == \E g \in Grammar : g.pat = p
InLanguage(p, w) == \E g \in Grammar : g.pat = p /\ w \in g.lang

----------------------------------------------------------------------------
\* Helpers of the properties

\* The alphanumeric characters of a string, in order.
RECURSIVE LiteralsOf(_)
LiteralsOf(str) ==
    IF str = <<>> THEN <<>>
    ELSE IF is_alphanumeric(Head(str)) THEN <<Head(str)>> \o LiteralsOf(Tail(str))
         ELSE LiteralsOf(Tail(str))

\* Reading a postfix string left to right with an operand-depth counter:
\* TRUE when `.` and `|` always find two operands and `*`, `+`, `?` one.
RECURSIVE OperandsSuffice(_, _)
OperandsSuffice(str, depth) ==
    IF str = <<>> THEN TRUE
    ELSE LET c == Head(str) IN
         IF c \in {".", "|"} THEN depth >= 2 /\ OperandsSuffice(Tail(str), depth - 1)
         ELSE IF c \in Repeats THEN depth >= 1 /\ OperandsSuffice(Tail(str), depth)
         ELSE OperandsSuffice(Tail(str), depth + 1)

\* The number of characters of str that allocate two states in compile.
RECURSIVE Allocating(_)
Allocating(str) ==
    IF str = <<>> THEN 0
    ELSE (IF is_alphanumeric(Head(str)) \/ Head(str) \in {"|", "*", "+"} THEN 1 ELSE 0)
         + Allocating(Tail(str))

\* The parenthesis depth at the end of a pattern (negative: an unmatched `)`).
RECURSIVE ParenDepth(_)
ParenDepth(str) ==
    IF str = <<>> THEN 0
    ELSE ParenDepth(SubSeq(str, 1, Len(str) - 1))
         + (IF str[Len(str)] = "(" THEN 1 ELSE IF str[Len(str)] = ")" THEN -1 ELSE 0)

\* An alternation without a right operand: a `|` that ends the pattern at top
\* level, or a `|` right before a `)`.
DanglingAlt(p) ==
    \/ Len(p) > 0 /\ p[Len(p)] = "|" /\ ParenDepth(p) = 0
    \/ \E k \in 1..(Len(p) - 1) : p[k] = "|" /\ p[k + 1] = ")"

\* The states without an outgoing edge.
Sinks == {id \in DOMAIN states : DOMAIN states[id] = {}}

\* The Char edges of a graph.
CharEdges(st) ==
    UNION {{<<from, to, st[from][to].chars>> :
                to \in {d \in DOMAIN st[from] : st[from][d].kind = "Char"}} :
           from \in DOMAIN st}

\* A path of one or more Epsilon edges from a state back to itself.
EpsilonStep(S) ==
    S \cup {d \in DOMAIN states :
               \E f \in S : d \in DOMAIN states[f] /\ states[f][d].kind = "Epsilon"}
RECURSIVE EpsilonReach(_, _)
EpsilonReach(S, n) == IF n = 0 THEN S ELSE EpsilonReach(EpsilonStep(S), n - 1)
HasEpsilonCycle ==
    \E id \in DOMAIN states :
        \E d \in DOMAIN states[id] :
            /\ states[id][d].kind = "Epsilon"
            /\ id \in EpsilonReach({d}, Cardinality(DOMAIN states))

NoDuplicates(seq) == \A j, k \in 1..Len(seq) : j # k => seq[j] # seq[k]

\* compile was handed a well-formed postfix string: it read all of it and was
\* left with exactly one fragment, which it popped.
CompiledWellFormed == built = "finished" /\ post # <<>> /\ stack = <<>>

----------------------------------------------------------------------------
\* Properties

\* C1: for a pattern of the grammar that re2post accepts and a non-empty input
\* w, NFAGraph::new(p).is_match(w) returns, and returns true exactly when w is
\* in the language of p.
C1_MatchIsMembership ==
    (mode = "new" /\ parse = "Some" /\ InGrammar(re) /\ pc = "done" /\ s # <<>>)
        => (outcome = "returned" /\ result = InLanguage(re, s))

\* C2: re2post returns None for every pattern (over the characters of the
\* grammar) in which a `|` has no right operand: a `|` that ends the pattern
\* at top level, or a `|` right before a `)`.
C2_DanglingAltRejected ==
    (mode = "new" /\ parse \in {"Some", "None", "panic"} /\ "#" \notin Range(re)
     /\ DanglingAlt(re))
        => parse = "None"

\* C3: when re2post returns Some(postfix), the literals of postfix are the
\* alphanumeric characters of the pattern in order, every operator of postfix
\* finds its operands, and compile never returns early on it.
C3_PostfixWellFormed ==
    (mode = "new" /\ parse = "Some")
        => /\ LiteralsOf(postfix) = LiteralsOf(re)
           /\ OperandsSuffice(postfix, 0)
           /\ built # "early"

\* C4: on a graph compiled from what re2post returns for a pattern it accepts
\* (the empty pattern included), is_match never aborts on any input (the empty
\* input included): every StateId closure looks up is a key of graph.states.
C4_IsMatchTotal ==
    (mode = "new" /\ parse = "Some")
        => /\ outcome # "panic"
           /\ \A id \in Range(queue) : id \in DOMAIN states

\* C5: on a graph compiled from a non-empty pattern that re2post accepts,
\* is_match("") returns false, without entering the per-character loop.
C5_EmptyInputFails ==
    (mode = "new" /\ parse = "Some" /\ re # <<>> /\ pc = "done" /\ s = <<>>)
        => (outcome = "returned" /\ result = FALSE /\ ~ in_loop)

C5_Witness ==
    /\ mode = "new" /\ re = <<"a", "*">> /\ pc = "done" /\ s = <<>>
    /\ outcome = "returned" /\ result = FALSE

\* C6: while and after compile processes any postfix string, the keys of
\* graph.states are exactly 0 .. last_id - 1, and their number is twice the
\* number of processed tokens that are a literal, `|`, `*` or `+`.
C6_DenseStateIds ==
    /\ DOMAIN states = 0..(last_id - 1)
    /\ Cardinality(DOMAIN states) = 2 * Allocating(SubSeq(post, 1, cpos))

C6_Witness ==
    /\ built = "finished" /\ post = <<"a", "+", "U", "+", ".">>
    /\ Cardinality(DOMAIN states) = 8

\* C7: on a graph compiled from a well-formed postfix string, is_match returns
\* for every input: closure_set and the queue never hold a state twice, the
\* loop index never passes the length of the input, and the call ends.
C7_IsMatchTerminates ==
    /\ [](CompiledWellFormed =>
            /\ NoDuplicates(closure_set)
            /\ NoDuplicates(queue)
            /\ Range(queue) \subseteq Range(closure_set)
            /\ i <= Len(s))
    /\ ((CompiledWellFormed /\ outcome = "running")
            ~> (pc = "done" /\ outcome = "returned"))

C7_Witness ==
    /\ CompiledWellFormed /\ HasEpsilonCycle
    /\ post = <<"a", "+", "*">> /\ s = <<"a", "a">>
    /\ pc = "done" /\ outcome = "returned"

\* C8: when re2post meets a character that is neither alphanumeric nor one of
\* ( ) | * + ? it returns None, as for the other syntax violations.
C8_IllegalCharIsNone ==
    (mode = "new" /\ re # <<>> /\ re[Len(re)] = "#") => parse = "None"

\* C9: processing a `?` or `*` token in compile keeps every Char edge of the
\* graph: same pair of states, same label.
C9_CharEdgesKept ==
    [][(pc = "compile" /\ cpos' = cpos + 1 /\ post'[cpos'] \in {"?", "*"})
           => CharEdges(states) \subseteq CharEdges(states')]_vars

\* C10: while compile processes a postfix string, the states without an
\* outgoing edge are exactly the ends of the fragments on the stack; when it
\* finishes a non-empty string with exactly one fragment, they are exactly
\* graph.ends.
C10_SinksAreEnds ==
    /\ built \in {"running", "early"}
           => Sinks = UNION {Range(stack[k].end) : k \in 1..Len(stack)}
    /\ CompiledWellFormed => Sinks = Range(ends)

C10_Witness ==
    /\ CompiledWellFormed /\ post = <<"a", "?", "U", ".">>
    /\ Sinks = Range(ends) /\ Sinks # {}

====
